---- MODULE Spec2Model ----
(***************************************************************************)
(* Nonsmooth time stepping of cardillo: Moreau.__init__/step/solve and     *)
(* Moreau_sym.__init__ (cardillo/solver/moreau.py) together with           *)
(* Rod.assembler_callback (cardillo/constraints/rod.py) and the elements   *)
(* RigidConnection and RigidConnectionCable in their two implementations.  *)
(* Times are whole multiples of a time unit.                               *)
(*                                                                         *)
(* Numbers.  All mechanical quantities are integers in units of 1e-3, so   *)
(* fix_point_tol = 1e-3 is the integer 1.  The rod geometry is given in    *)
(* units of 1e-7, so the rod tolerance 1e-6 is the integer 10.             *)
(*                                                                         *)
(* Mechanical system (the object `model` the solver is constructed with):  *)
(* a particle with coordinates (x, y, z) and a rotor angle w, NU = 4       *)
(* velocities, mass matrix mass * I.  Contact 1 is the floor y >= 0,       *)
(* contact 2 the wall x >= 0.  Every contact owns nT friction directions   *)
(* (0, 1 or 2).  One bilateral constraint drives the rotor: w_dot = drive. *)
(***************************************************************************)
EXTENDS Integers, Sequences, FiniteSets, TLC

(***************************************************************************)
(* Bounds of the exploration                                               *)
(***************************************************************************)
MaxT == 3
MaxIter == 2
MaxRodOffset == 10

(***************************************************************************)
(* Program constants                                                       *)
(***************************************************************************)
FixPointTol == 1
RodTol == 10
NU == 4
NN == 2

(***************************************************************************)
(* Vector helpers (numpy arrays are functions 1..n -> Int)                 *)
(***************************************************************************)
Zeros(n) == [i \in 1..n |-> 0]

Abs(a) == IF a < 0 THEN -a ELSE a

Sign(a) == IF a < 0 THEN -1 ELSE IF a > 0 THEN 1 ELSE 0

Max2(a, b) == IF a >= b THEN a ELSE b

Unit(a) == [i \in 1..NU |-> IF i = a THEN 1 ELSE 0]

VAdd(a, b) == [i \in DOMAIN a |-> a[i] + b[i]]

VScale(c, a) == [i \in DOMAIN a |-> c * a[i]]

RECURSIVE SumTo(_, _)
SumTo(f, n) == IF n = 0 THEN 0 ELSE f[n] + SumTo(f, n - 1)

Dot(a, b) == SumTo([i \in DOMAIN a |-> a[i] * b[i]], Len(a))

RECURSIVE VSum(_, _)
VSum(vs, n) == IF n = 0 THEN Zeros(NU) ELSE VAdd(vs[n], VSum(vs, n - 1))

RECURSIVE MaxAbsTo(_, _)
MaxAbsTo(f, n) == IF n = 0 THEN 0 ELSE Max2(Abs(f[n]), MaxAbsTo(f, n - 1))

RECURSIVE ISqrtFrom(_, _)
ISqrtFrom(s, r) == IF (r + 1) * (r + 1) > s THEN r ELSE ISqrtFrom(s, r + 1)

ISqrt(s) == ISqrtFrom(s, 0)

CeilSqrt(s) == IF ISqrt(s) * ISqrt(s) = s THEN ISqrt(s) ELSE ISqrt(s) + 1

TruncDiv(a, b) == Sign(a) * Sign(b) * (Abs(a) \div Abs(b))

(***************************************************************************)
(* The assembled mechanical system consumed by the solver (self.model).    *)
(* A system is a record f with fields                                      *)
(*   kind, t0, t1, dt, max_iter : the solver configuration,                *)
(*   mass, grav, e_N, mu, nT, prox_r, drive : the mechanical parameters,   *)
(*   q0, u0, la_g0, la_N0, la_T0 : the initial values,                     *)
(*   rod : the initial offset r_OP20 - r_OP10 of the rod's two points.     *)
(***************************************************************************)
M(f, t, q) == <<f.mass, f.mass, f.mass, 1>>

h(f, t, q, u) == <<0, -(f.mass * f.grav), 0, -(f.grav)>>

q_dot(f, t, q, u) == u

W_g(f, t, q) == Unit(4)

g_dot_u(f, t, q) == Unit(4)

chi_g(f, t, q) == -(f.drive)

\* g_dot = g_dot_u u + chi_g
g_dot(f, t, q, u) == <<Dot(g_dot_u(f, t, q), u) + chi_g(f, t, q)>>

\* the diagonal of h_u: the forces do not depend on the velocity
h_u(f, t, q, u) == Zeros(NU)

g_N(f, t, q) == <<q[2], q[1]>>

\* column i of W_N: the normal of contact i (floor: y, wall: x)
W_N(f, t, q) == <<Unit(2), Unit(1)>>

\* NT_connectivity[i] lists the friction indices owned by contact i
NT_connectivity(f) == [i \in 1..NN |-> [j \in 1..f.nT |-> (i - 1) * f.nT + j]]

TangentAxes == << <<1, 3>>, <<2, 3>> >>

\* column c of W_T: the tangent direction of friction index c
W_T(f, t, q) ==
    [c \in 1..(NN * f.nT) |->
        Unit(TangentAxes[((c - 1) \div f.nT) + 1][((c - 1) % f.nT) + 1])]

\* post-step normalisation: the rotor angle is wrapped into one revolution
solver_step_callback(f, t, q, u) == <<[q EXCEPT ![4] = q[4] % 4], u>>

(***************************************************************************)
(* numpy indexing                                                          *)
(***************************************************************************)
RECURSIVE MaskIdx(_, _)
\* the indices i <= n with mask[i] true, ascending: what mask indexing selects
MaskIdx(mask, n) ==
    IF n = 0 THEN <<>>
    ELSE IF mask[n] THEN Append(MaskIdx(mask, n - 1), n) ELSE MaskIdx(mask, n - 1)

\* v[idx] for an index array idx
Take(v, idx) == [k \in 1..Len(idx) |-> v[idx[k]]]

RECURSIVE Flatten(_, _)
\* rows[1] o ... o rows[n]: reshape(-1) of the selected rows
Flatten(rows, n) == IF n = 0 THEN <<>> ELSE Flatten(rows, n - 1) \o rows[n]

AnyTrue(mask) == \E i \in DOMAIN mask : mask[i]

\* cols[:, idx] @ v[idx]
MatVecSel(cols, idx, v) ==
    VSum([k \in 1..Len(idx) |-> VScale(v[idx[k]], cols[idx[k]])], Len(idx))

\* faulty variant of AssignSel: the whole of w is taken over
AssignWhole(v, idx, w) == w

\* v with v[idx] = w[idx]
AssignSel(v, idx, w) ==
    [i \in DOMAIN v |-> IF \E k \in 1..Len(idx) : idx[k] = i THEN w[i] ELSE v[i]]

(***************************************************************************)
(* Proximal-point update of the contact percussions                        *)
(* (model.contact_force_fixpoint_update, called at moreau.py:86)           *)
(***************************************************************************)
prox_Rn0(x) == Max2(0, x)

\* projection of x (0, 1 or 2 components) onto the ball of the given radius;
\* a disk projection that is not representable is rounded towards zero
prox_sphere(x, radius) ==
    IF Dot(x, x) <= radius * radius THEN x
    ELSE [k \in DOMAIN x |-> TruncDiv(radius * x[k], CeilSqrt(Dot(x, x)))]

xi_N(f, t, q, u_pre, u_post) ==
    [i \in 1..NN |-> Dot(W_N(f, t, q)[i], u_post) + f.e_N * Dot(W_N(f, t, q)[i], u_pre)]

xi_T(f, t, q, u_pre, u_post) ==
    [c \in 1..(NN * f.nT) |-> Dot(W_T(f, t, q)[c], u_post)]

prox_r_N(f) == f.prox_r * f.mass

prox_r_T(f) == f.prox_r * f.mass

contact_force_fixpoint_update(f, t, q, u_pre, u_post, la_N, la_T, I_N) ==
    LET xN == xi_N(f, t, q, u_pre, u_post)
        xT == xi_T(f, t, q, u_pre, u_post)
        la_N1 == [i \in 1..NN |->
                    IF I_N[i] THEN prox_Rn0(la_N[i] - prox_r_N(f) * xN[i]) ELSE la_N[i]]
        row(i) == NT_connectivity(f)[i]
        arg(i) == [j \in 1..f.nT |-> la_T[row(i)[j]] - prox_r_T(f) * xT[row(i)[j]]]
        proj(i) == prox_sphere(arg(i), f.mu * la_N1[i])
        la_T1 == [c \in 1..(NN * f.nT) |->
                    LET i == ((c - 1) \div f.nT) + 1
                        j == ((c - 1) % f.nT) + 1
                    IN  IF I_N[i] THEN proj(i)[j] ELSE la_T[c]]
    IN  <<la_N1, la_T1>>

(***************************************************************************)
(* Moreau.step, moreau.py:31-114                                           *)
(***************************************************************************)
\* faulty variant of ActiveSet: a contact with zero gap is not active
ActiveSetStrict(gN) == [i \in 1..NN |-> gN[i] < 0]

\* moreau.py:53   I_N = (g_N <= 0)
ActiveSet(gN) == [i \in 1..NN |-> gN[i] <= 0]

\* faulty variant of FrictionSet: every friction index, whatever the active set
\* (the assignment I_T = self.model.la_TDOF of the comment at moreau.py:77)
FrictionSetAll(f, I_N) == Flatten(NT_connectivity(f), NN)

\* moreau.py:54   I_T = self.model.NT_connectivity[I_N].reshape(-1)
FrictionSet(f, I_N) ==
    LET sel == MaskIdx(I_N, NN)
    IN  Flatten(Take(NT_connectivity(f), sel), Len(sel))

\* faulty variant of BuildA: the symmetric saddle-point matrix
BuildASymmetric(dt, Mm, Wg, gu) ==
    [M |-> Mm, UR |-> VScale(-1, Wg), LL |-> VScale(-1, gu)]

\* moreau.py:56-58 and 101-103: the blocks of A; nla_gamma = 0, so the
\* W_gamma column and the gamma_u row are empty
BuildA(dt, Mm, Wg, gu) == [M |-> Mm, UR |-> VScale(-dt, Wg), LL |-> gu]

\* faulty variant of ContactForcing: the masks are ignored, W_N @ la_N + W_T @ la_T
ContactForcingAll(WN, WT, I_N, I_T, la_N, la_T) ==
    VAdd(MatVecSel(WN, [i \in 1..NN |-> i], la_N),
         MatVecSel(WT, [c \in 1..Len(la_T) |-> c], la_T))

\* the contact forcing W_N[:, I_N] @ la_N[I_N] + W_T[:, I_T] @ la_T[I_T]
ContactForcing(WN, WT, I_N, I_T, la_N, la_T) ==
    VAdd(MatVecSel(WN, MaskIdx(I_N, NN), la_N), MatVecSel(WT, I_T, la_T))

\* faulty variant of Rhs: the contact forcing is left out of the velocity block
RhsNoForcing(Mm, uk, dt, hh, forcing, chi) ==
    [u |-> VAdd([i \in 1..NU |-> Mm[i] * uk[i]], VScale(dt, hh)), g |-> -chi]

\* moreau.py:60-62 and 105-107: the right-hand side b
Rhs(Mm, uk, dt, hh, forcing, chi) ==
    [u |-> VAdd(VAdd([i \in 1..NU |-> Mm[i] * uk[i]], VScale(dt, hh)), forcing),
     g |-> -chi]

\* spsolve(A, b) for A = [[diag(M), UR], [LL, 0]] with one constraint column:
\* elimination of u gives la, back-substitution gives u
spsolve(A, b) ==
    LET P == A.M[1] * A.M[2] * A.M[3] * A.M[4]
        S == SumTo([i \in 1..NU |-> A.LL[i] * A.UR[i] * (P \div A.M[i])], NU)
        T == SumTo([i \in 1..NU |-> A.LL[i] * b.u[i] * (P \div A.M[i])], NU) - b.g * P
        la == T \div S
    IN  [u |-> [i \in 1..NU |-> (b.u[i] - A.UR[i] * la) \div A.M[i]], la_g |-> <<la>>]

\* faulty variant of fix_point_error_function: the maximum is not divided
fix_point_error_unscaled(x) == [num |-> MaxAbsTo(x, Len(x)), den |-> 1]

\* moreau.py:14  fix_point_error_function: max(abs(x)) / len(x), kept as a fraction
fix_point_error_function(x) == [num |-> MaxAbsTo(x, Len(x)), den |-> Len(x)]

\* faulty variant of ErrorBelowTol: an error equal to the tolerance is accepted
ErrorBelowTolInclusive(error) == error.num <= FixPointTol * error.den

\* moreau.py:92  converged = error < self.fix_point_tol
ErrorBelowTol(error) == error.num < FixPointTol * error.den

\* moreau.py:90  R
Residual(I_N, I_T, la_N1, la_N0, la_T1, la_T0) ==
    LET sel == MaskIdx(I_N, NN)
    IN  [k \in 1..Len(sel) |-> la_N1[sel[k]] - la_N0[sel[k]]]
        \o [k \in 1..Len(I_T) |-> la_T1[I_T[k]] - la_T0[I_T[k]]]

\* faulty variant of LoopContinues: the loop is not guarded by np.any(I_N)
LoopUnguarded(entered, it, max_iter) == it < max_iter

\* faulty variant of InitialConverged: converged is not reset before the loop
InitialConvergedKept(entered) == TRUE

\* moreau.py:72, 75, 78: converged before the first iteration
InitialConverged(entered) == ~entered

\* faulty variant of LoopContinues: the loop runs one pass too many
LoopOneMore(entered, it, max_iter) == entered /\ it <= max_iter

\* moreau.py:83  for j in range(self.fix_point_max_iter), entered under line 75
LoopContinues(entered, it, max_iter) == entered /\ it < max_iter

\* faulty variant of Predictor: the step size is left out
PredictorUnscaled(dt, qk, qd) == VAdd(qk, qd)

\* moreau.py:36  qk1 = qk + dt * self.model.q_dot(tk, qk, uk)
Predictor(dt, qk, qd) == VAdd(qk, VScale(dt, qd))

\* faulty variant of SolveCount: the solve reuses an existing factorization
SolveCountReused(n) == n

\* moreau.py:64 and 109: spsolve(A, b) factorizes A anew on every call
SolveCount(n) == n + 1

\* faulty variant of LoopMatrix: the blocks are not scaled as in the trial solve
LoopMatrixUnscaled(dt, Mm, Wg, gu) == [M |-> Mm, UR |-> VScale(-1, Wg), LL |-> gu]

\* moreau.py:101-103: A is assembled again from the M, W_g, g_dot_u of lines 38-44
LoopMatrix(dt, Mm, Wg, gu) == BuildA(dt, Mm, Wg, gu)

\* moreau.py:33-82: everything before the fixed-point loop.  The record holds
\* the locals of step; it is the index of the next loop iteration; nprox,
\* nsolve, nbuild count the calls of contact_force_fixpoint_update, spsolve
\* and bmat made so far in this step; A0 is the matrix of the trial solve;
\* la_N_prev, la_T_prev are the contact values the last update was compared
\* with and du is the largest velocity change its result produces.
StepBegin(f, slv, tk, qk, uk, la_Nk, la_Tk) ==
    LET dt == slv.dt
        tk1 == tk + dt
        qk1 == Predictor(dt, qk, q_dot(f, tk, qk, uk))
        Mm == M(f, tk1, qk1)
        hh == h(f, tk1, qk1, uk)
        WN == W_N(f, tk1, qk1)
        WT == W_T(f, tk1, qk1)
        gN == g_N(f, tk1, qk1)
        I_N == ActiveSet(gN)
        I_T == FrictionSet(f, I_N)
        Wg == W_g(f, tk1, qk1)
        gu == g_dot_u(f, tk1, qk1)
        chi == chi_g(f, tk1, qk1)
        A == BuildA(dt, Mm, Wg, gu)
        b == Rhs(Mm, uk, dt, hh, ContactForcing(WN, WT, I_N, I_T, la_Nk, la_Tk), chi)
        x == spsolve(A, b)
        entered == AnyTrue(I_N)
    IN  [tk |-> tk, qk |-> qk, uk |-> uk, la_Nk |-> la_Nk, la_Tk |-> la_Tk,
         tk1 |-> tk1, qk1 |-> qk1, M |-> Mm, h |-> hh, W_g |-> Wg, g_dot_u |-> gu,
         chi_g |-> chi, W_N |-> WN, W_T |-> WT, g_N |-> gN,
         I_N |-> I_N, I_T |-> I_T, A0 |-> A, A |-> A, b0 |-> b, b |-> b,
         u_trial |-> x.u, uk1 |-> x.u, la_gk1 |-> x.la_g, la_gammak1 |-> <<>>,
         la_Nk1 |-> Zeros(Len(la_Nk)), la_Tk1 |-> Zeros(Len(la_Tk)),
         converged |-> InitialConverged(entered), error |-> [num |-> 0, den |-> 1], j |-> 0,
         la_Nk0 |-> la_Nk, la_Nk1_i |-> la_Nk, la_Tk0 |-> la_Tk, la_Tk1_i |-> la_Tk,
         la_N_prev |-> la_Nk, la_T_prev |-> la_Tk, du |-> 0,
         it |-> 0, nprox |-> 0, nsolve |-> SolveCount(0), nbuild |-> 1,
         done |-> ~LoopContinues(entered, 0, slv.fix_point_max_iter)]

\* faulty variant of VelocityAtBreak: the system is solved again with the new
\* contact values before the loop is left
VelocityResolvedAtBreak(uk1, u_new) == u_new

\* moreau.py:93-96: the break of a converged update skips lines 101-112, so
\* uk1 keeps the value of the last solve; u_new is what that solve would give
VelocityAtBreak(uk1, u_new) == uk1

\* moreau.py:84-112: one pass through the body of the fixed-point loop
FixIter(f, slv, st) ==
    LET upd == contact_force_fixpoint_update(f, st.tk1, st.qk1, st.uk, st.uk1,
                                             st.la_Nk1_i, st.la_Tk1_i, st.I_N)
        R == Residual(st.I_N, st.I_T, upd[1], st.la_Nk0, upd[2], st.la_Tk0)
        err == fix_point_error_function(R)
        conv == ErrorBelowTol(err)
        A == LoopMatrix(slv.dt, st.M, st.W_g, st.g_dot_u)
        b == Rhs(st.M, st.uk, slv.dt, st.h,
                 ContactForcing(st.W_N, st.W_T, st.I_N, st.I_T, upd[1], upd[2]),
                 st.chi_g)
        x == spsolve(A, b)
        \* the velocity change the new contact values produce
        du == MaxAbsTo([i \in 1..NU |-> x.u[i] - st.uk1[i]], NU)
    IN  IF conv
        THEN [st EXCEPT !.j = st.it, !.nprox = @ + 1,
                        !.la_Nk1_i = upd[1], !.la_Tk1_i = upd[2],
                        !.error = err, !.converged = TRUE,
                        !.la_N_prev = st.la_Nk0, !.la_T_prev = st.la_Tk0, !.du = du,
                        !.uk1 = VelocityAtBreak(@, x.u),
                        !.la_Nk1 = AssignSel(@, MaskIdx(st.I_N, NN), upd[1]),
                        !.la_Tk1 = AssignSel(@, st.I_T, upd[2]),
                        !.done = TRUE]
        ELSE [st EXCEPT !.j = st.it, !.nprox = @ + 1,
                        !.la_Nk1_i = upd[1], !.la_Tk1_i = upd[2],
                        !.error = err, !.converged = FALSE,
                        !.la_N_prev = st.la_Nk0, !.la_T_prev = st.la_Tk0, !.du = du,
                        !.la_Nk0 = upd[1], !.la_Tk0 = upd[2],
                        !.A = A, !.b = b, !.nbuild = @ + 1, !.nsolve = SolveCount(@),
                        !.uk1 = x.u, !.la_gk1 = x.la_g,
                        !.it = st.it + 1,
                        !.done = ~LoopContinues(TRUE, st.it + 1, slv.fix_point_max_iter)]

\* moreau.py:114: the tuple returned by step
StepResult(st) ==
    [converged |-> st.converged, j |-> st.j, error |-> st.error,
     tk1 |-> st.tk1, qk1 |-> st.qk1, uk1 |-> st.uk1,
     la_gk1 |-> st.la_gk1, la_gammak1 |-> st.la_gammak1,
     la_Nk1 |-> st.la_Nk1, la_Tk1 |-> st.la_Tk1]

RECURSIVE RunLoop(_, _, _)
RunLoop(f, slv, st) == IF st.done THEN st ELSE RunLoop(f, slv, FixIter(f, slv, st))

\* Moreau.step as a function of its arguments
step(f, slv, tk, qk, uk, la_Nk, la_Tk) ==
    StepResult(RunLoop(f, slv, StepBegin(f, slv, tk, qk, uk, la_Nk, la_Tk)))

(***************************************************************************)
(* Moreau_sym.step, moreau.py:196-206, 233-245 and 259-302                 *)
(***************************************************************************)
\* moreau.py:157  newton_tol = 1e-6: one NewtonTolInv-th of the velocity unit
NewtonTolInv == 1000

\* moreau.py:157  newton_error_function = lambda x: np.max(np.abs(x))
newton_error_function(R) == Max2(MaxAbsTo(R.u, NU), MaxAbsTo(R.g, Len(R.g)))

\* faulty variant of NewtonConverged: the tolerance is met by any error
NewtonConvergedAlways(error) == TRUE

\* moreau.py:274 and 291  converged = error < self.newton_tol
NewtonConverged(error) == error * NewtonTolInv < 1

\* moreau.py:196-206  __R; the halves of 0.5 * dt * (h + h) are exact here
R_sym(f, slv, Mk1, Wgk1, uk, tk1, qk1, uk1, la_gk1) ==
    LET h0 == h(f, tk1, qk1, uk)
        h1 == h(f, tk1, qk1, uk1)
    IN  [u |-> [i \in 1..NU |-> Mk1[i] * (uk1[i] - uk[i])
                                - (slv.dt * (h0[i] + h1[i])) \div 2
                                - slv.dt * Wgk1[i] * la_gk1[1]],
         g |-> g_dot(f, tk1, qk1, uk1)]

\* moreau.py:233-245  __R_x_analytic
R_x_analytic(f, slv, Mk1, Wgk1, tk1, qk1, uk1) ==
    [M |-> [i \in 1..NU |-> Mk1[i] - (slv.dt * h_u(f, tk1, qk1, uk1)[i]) \div 2],
     UR |-> VScale(-slv.dt, Wgk1),
     LL |-> g_dot_u(f, tk1, qk1)]

\* moreau.py:277-293: the Newton loop; s holds the locals of step
RECURSIVE NewtonLoop(_, _, _)
NewtonLoop(f, slv, s) ==
    IF s.converged \/ s.j >= slv.newton_max_iter
    THEN s
    ELSE LET R_x == R_x_analytic(f, slv, s.Mk1, s.W_gk1, s.tk1, s.qk1, s.uk1)
             dx == spsolve(R_x, [u |-> s.R.u, g |-> s.R.g[1]])
             uk1 == [i \in 1..NU |-> s.uk1[i] - dx.u[i]]
             la_gk1 == [i \in DOMAIN s.la_gk1 |-> s.la_gk1[i] - dx.la_g[i]]
             Mk1 == M(f, s.tk1, s.qk1)
             Wgk1 == W_g(f, s.tk1, s.qk1)
             R == R_sym(f, slv, Mk1, Wgk1, s.uk, s.tk1, s.qk1, uk1, la_gk1)
             error == newton_error_function(R)
         IN  NewtonLoop(f, slv, [s EXCEPT !.j = @ + 1, !.uk1 = uk1, !.la_gk1 = la_gk1,
                                          !.Mk1 = Mk1, !.W_gk1 = Wgk1, !.R = R,
                                          !.error = error,
                                          !.converged = NewtonConverged(error)])

\* moreau.py:259-302  Moreau_sym.step: the locals when step returns or raises;
\* Mk1 and W_gk1 are the attributes self.Mk1, self.W_gk1, which the predictor
\* reads as the last call of __R left them
step_sym(f, slv, tk, qk, uk, la_gk, la_gammak) ==
    LET dt == slv.dt
        tk1 == tk + dt
        hk == VAdd(h(f, tk, qk, uk), VScale(la_gk[1], slv.W_gk1))
        uk1 == VAdd(uk, VScale(dt, [i \in 1..NU |-> hk[i] \div slv.Mk1[i]]))
        qk1 == Predictor(dt, qk, q_dot(f, tk, qk, uk))
        Mk1 == M(f, tk1, qk1)
        Wgk1 == W_g(f, tk1, qk1)
        R == R_sym(f, slv, Mk1, Wgk1, uk, tk1, qk1, uk1, la_gk)
        error == newton_error_function(R)
        s == NewtonLoop(f, slv,
                 [tk |-> tk, qk |-> qk, uk |-> uk, tk1 |-> tk1, qk1 |-> qk1,
                  u_pred |-> uk1, uk1 |-> uk1, la_gk1 |-> la_gk, la_gammak1 |-> la_gammak,
                  Mk1 |-> Mk1, W_gk1 |-> Wgk1, R |-> R, R0 |-> R, error |-> error,
                  converged |-> NewtonConverged(error), j |-> 0])
    IN  s

(***************************************************************************)
(* Rod.assembler_callback, rod.py:82-90                                    *)
(***************************************************************************)
\* np.linalg.norm at the resolution of the rod's length unit
norm(v) == ISqrt(Dot(v, v))

\* faulty variant of RodTooShort: a rod of exactly the tolerance is rejected
RodTooShortInclusive(dist) == dist <= RodTol

\* rod.py:89  if self.dist < 1e-6
RodTooShort(dist) == dist < RodTol

(***************************************************************************)
(* RigidConnection and RigidConnectionCable,                               *)
(* constraints/rigid_connection.py and                                     *)
(* model/bilateral_constraints/implicit/RigidConnection.py                 *)
(* A subsystem's configuration is [r, A]: position of its origin and its   *)
(* rotation matrix (rows of integers).                                     *)
(***************************************************************************)
VSub(a, b) == [i \in DOMAIN a |-> a[i] - b[i]]

MatVec(A, v) == [i \in 1..3 |-> A[i][1] * v[1] + A[i][2] * v[2] + A[i][3] * v[3]]

Transpose(A) == [i \in 1..3 |-> [j \in 1..3 |-> A[j][i]]]

MatMul(A, B) ==
    [i \in 1..3 |-> [j \in 1..3 |-> A[i][1] * B[1][j] + A[i][2] * B[2][j] + A[i][3] * B[3][j]]]

Col(A, j) == [i \in 1..3 |-> A[i][j]]

Eye3 == << <<1, 0, 0>>, <<0, 1, 0>>, <<0, 0, 1>> >>

\* quarter turns about z, x and y
Rz == << <<0, -1, 0>>, <<1, 0, 0>>, <<0, 0, 1>> >>

Rx == << <<1, 0, 0>>, <<0, 0, -1>>, <<0, 1, 0>> >>

Ry == << <<0, 0, 1>>, <<0, 1, 0>>, <<-1, 0, 0>> >>

\* subsystem.A_IK(t, q)
A_IK(q) == q.A

\* subsystem.r_OP(t, q, K_r_SP)
r_OP(q, K_r_SP) == VAdd(q.r, MatVec(A_IK(q), K_r_SP))

\* rigid_body_quaternion.py:39-40: nq = 7, nu = 6; the other bodies have
\* as many velocities as coordinates
SubsystemDims(kind) ==
    IF kind = "RigidBodyQuaternion" THEN [nq |-> 7, nu |-> 6] ELSE [nq |-> 6, nu |-> 6]

\* whether the constructor of RigidConnectionCable runs: in constraints/ it is
\* spelled _init_ (rigid_connection.py:329-347), which Python never calls, in
\* model/bilateral_constraints/ it is __init__ (RigidConnection.py:687-707)
CableInitRuns(impl) == impl = "implicit"

\* __init__: rigid_connection.py:12-25 and 329-347; RigidConnection.py:7-21
\* and 687-707
NewElement(f) ==
    [kind |-> f.element, impl |-> f.impl,
     nla_g |-> IF f.element = "RigidConnectionCable" /\ CableInitRuns(f.impl)
               THEN 5 ELSE 6,
     assembled |-> FALSE]

\* faulty variant of K_r_SB: the offset is not brought into the body's frame
K_r_SB_NotTransposed(A_IK0, r_OB0, r_OS0) == MatVec(A_IK0, VSub(r_OB0, r_OS0))

\* RigidConnection.py:72-73, rigid_connection.py:48-49
\*   K1_r_S1B = A_IK1.T @ (r_OB0 - r_OS1)
K_r_SB(A_IK0, r_OB0, r_OS0) == MatVec(Transpose(A_IK0), VSub(r_OB0, r_OS0))

\* RigidConnection.py:68-69, rigid_connection.py:51-52  A_K1B = A_IK1.T @ A_IB0
A_KB(A_IK0, A_IB0) == MatMul(Transpose(A_IK0), A_IB0)

\* assembler_callback: RigidConnection.py:23-73, rigid_connection.py:27-54;
\* the assembler gives the element nla_g rows la_gDOF
assembler_callback(f, c) ==
    LET d1 == SubsystemDims(f.body1.kind)
        d2 == SubsystemDims(f.body2.kind)
        A_IK1 == A_IK(f.body1.q0)
        A_IK2 == A_IK(f.body2.q0)
        r_OS1 == r_OP(f.body1.q0, <<0, 0, 0>>)
        r_OS2 == r_OP(f.body2.q0, <<0, 0, 0>>)
        A_IB0 == A_IK1
        r_OB0 == r_OS1
    IN  [kind |-> c.kind, impl |-> c.impl, nla_g |-> c.nla_g, assembled |-> TRUE,
         nq1 |-> d1.nq, nq2 |-> d2.nq, nq |-> d1.nq + d2.nq,
         nu1 |-> d1.nu, nu2 |-> d2.nu, nu |-> d1.nu + d2.nu,
         n_la_gDOF |-> c.nla_g, n_qDOF |-> d1.nq + d2.nq, n_uDOF |-> d1.nu + d2.nu,
         A_K1B |-> A_KB(A_IK1, A_IB0), A_K2B |-> A_KB(A_IK2, A_IB0),
         K1_r_S1B |-> K_r_SB(A_IK1, r_OB0, r_OS1),
         K2_r_S2B |-> K_r_SB(A_IK2, r_OB0, r_OS2),
         last |-> [name |-> "none", cfg |-> "none", value |-> <<>>,
                   raised |-> FALSE, shape |-> <<>>, index |-> <<>>]]

\* RigidConnection.py:76-78 and 154-156: r_OB1, r_OB2
r_OB(q, K_r_SB0) == r_OP(q, K_r_SB0)

\* RigidConnection.py:103-106 and 181-184: A_IB1, A_IB2
A_IB(q, A_KB0) == MatMul(A_IK(q), A_KB0)

\* g: RigidConnection.py:232-237 and 709-714, rigid_connection.py:56-62 and
\* 349-354
g_con(c, q1, q2) ==
    LET r_OB1 == r_OB(q1, c.K1_r_S1B)
        r_OB2 == r_OB(q2, c.K2_r_S2B)
        A_IB1 == A_IB(q1, c.A_K1B)
        A_IB2 == A_IB(q2, c.A_K2B)
        ex1 == Col(A_IB1, 1)
        ey1 == Col(A_IB1, 2)
        ez1 == Col(A_IB1, 3)
        ex2 == Col(A_IB2, 1)
        ey2 == Col(A_IB2, 2)
        ez2 == Col(A_IB2, 3)
        d == VSub(r_OB2, r_OB1)
    IN  IF c.kind = "RigidConnectionCable"
        THEN <<d[1], d[2], d[3], Dot(ex1, ey2), Dot(ex1, ez2)>>
        ELSE <<d[1], d[2], d[3], Dot(ex1, ey2), Dot(ey1, ez2), Dot(ez1, ex2)>>

\* the dense block of a Jacobian and the index pair it is handed to
\* coo.extend with; shapes only.  g_q: RigidConnection.py:239-241, 565-566 and
\* rigid_connection.py:64-66; W_g: RigidConnection.py:568-570 and
\* rigid_connection.py:252-254; g_ddot_u: RigidConnection.py:493-563 and
\* rigid_connection.py:215-250.  In RigidConnection.py:496 the block of
\* g_ddot_u has _nq columns, and filling its columns nu1: with the nu2 columns
\* of a_B2_u2 (line 500) raises ValueError unless _nq = _nu.
JacobianBlock(c, name) ==
    IF name = "g_q"
    THEN [raised |-> FALSE, shape |-> <<c.nla_g, c.nq>>, index |-> <<c.n_la_gDOF, c.n_qDOF>>]
    ELSE IF name = "W_g"
    THEN [raised |-> FALSE, shape |-> <<c.nu, c.nla_g>>, index |-> <<c.n_uDOF, c.n_la_gDOF>>]
    ELSE IF c.impl = "implicit"
    THEN [raised |-> c.nq - c.nu1 # c.nu2,
          shape |-> IF c.nq - c.nu1 # c.nu2 THEN <<>> ELSE <<c.nla_g, c.nq>>,
          index |-> <<c.n_la_gDOF, c.n_uDOF>>]
    ELSE [raised |-> FALSE, shape |-> <<c.nla_g, c.nu>>, index |-> <<c.n_la_gDOF, c.n_uDOF>>]

(***************************************************************************)
(* Moreau.__init__ and Moreau_sym.__init__, moreau.py:11-29 and 158-194    *)
(***************************************************************************)
\* faulty variant of T1Value: t1 = t0 is accepted
T1ValueInclusive(t1, t0) ==
    IF t1 >= t0 THEN [kind |-> "num", val |-> t1] ELSE [kind |-> "ValueError", val |-> 0]

\* moreau.py:21 and 164: the value bound to self.t1; for t1 <= t0 it is a
\* ValueError object (constructed, not raised)
T1Value(t1, t0) ==
    IF t1 > t0 THEN [kind |-> "num", val |-> t1] ELSE [kind |-> "ValueError", val |-> 0]

\* moreau.py:23 and 166: self.t1 + self.dt raises TypeError unless self.t1 is a number
AddRaises(a) == a.kind # "num"

\* moreau.py:23 and 166: t0, t1 and dt are floats, multiples of a time unit
\* that need not be a binary fraction.  np.arange takes its length as
\* ceil((stop - start) / step) in binary floating point; when the exact
\* quotient is a whole number the rounded sum t1 + dt and the rounded quotient
\* can lie above it (t0 = 0, t1 = 0.2, dt = 0.1: 0.30000000000000004 / 0.1 =
\* 3.0000000000000004), which gives one sample more.  The set holds the
\* numbers of surplus samples the rounding can produce.
ArangeExcess(start, stop, stp) ==
    IF stop > start /\ (stop - start) % stp = 0 THEN {0, 1} ELSE {0}

\* np.arange(start, stop, step) for step > 0 with excess surplus samples
arange(start, stop, stp, excess) ==
    LET n == IF stop > start THEN ((stop - start) + (stp - 1)) \div stp + excess ELSE 0
    IN  [i \in 1..n |-> start + (i - 1) * stp]

NewSolver(f, excess) ==
    IF f.kind = "Moreau"
    THEN [kind |-> f.kind, t1 |-> T1Value(f.t1, f.t0).val, dt |-> f.dt,
          t |-> arange(f.t0, T1Value(f.t1, f.t0).val + f.dt, f.dt, excess),
          fix_point_tol |-> FixPointTol, fix_point_max_iter |-> f.max_iter,
          nq |-> Len(f.q0), nu |-> Len(f.u0), nla_g |-> Len(f.la_g0), nla_gamma |-> 0]
    ELSE [kind |-> f.kind, t1 |-> T1Value(f.t1, f.t0).val, dt |-> f.dt,
          t |-> arange(f.t0, T1Value(f.t1, f.t0).val + f.dt, f.dt, excess),
          newton_max_iter |-> f.newton_max_iter,
          nq |-> Len(f.q0), nu |-> Len(f.u0), nla_g |-> Len(f.la_g0), nla_gamma |-> 0,
          Mk1 |-> M(f, f.t0, f.q0), W_gk1 |-> W_g(f, f.t0, f.q0)]

(***************************************************************************)
(* The systems explored                                                    *)
(***************************************************************************)
Base ==
    [kind |-> "Moreau", t0 |-> 0, t1 |-> 2, dt |-> 1, max_iter |-> 2,
     newton_max_iter |-> 2, continue_unconverged |-> FALSE,
     element |-> "Rod", impl |-> "constraints",
     body1 |-> [kind |-> "RigidBodyQuaternion", q0 |-> [r |-> <<0, 0, 0>>, A |-> Eye3]],
     body2 |-> [kind |-> "RigidBodyQuaternion", q0 |-> [r |-> <<0, 0, 0>>, A |-> Eye3]],
     mass |-> 1, grav |-> 1, e_N |-> 0, mu |-> 1, nT |-> 1, prox_r |-> 1, drive |-> 1,
     q0 |-> <<1, 0, 0, 0>>, u0 |-> <<0, -1, 0, 1>>,
     la_g0 |-> <<0>>, la_N0 |-> <<0, 0>>, la_T0 |-> <<0, 0>>,
     rod |-> <<6, 8, 0>>]

\* initial position and velocity (x, y, z, w)
Scenarios ==
    { << <<1, 1, 0, 0>>, <<0, 0, 0, 1>> >>,
      << <<1, 0, 0, 0>>, <<0, -1, 0, 1>> >>,
      << <<0, 1, 0, 0>>, <<-1, 0, 0, 1>> >>,
      << <<0, 0, 0, 0>>, <<-1, -1, 1, 1>> >>,
      << <<2, 2, 0, 0>>, <<-1, -1, 0, 1>> >>,
      << <<1, 0, 0, 0>>, <<-1, 0, 1, 1>> >> }

\* a system with nT = 2 has mass 1, so that the rounded disk projection
\* keeps the velocities representable
Dynamics ==
    { [Base EXCEPT !.dt = dt, !.t1 = t1, !.max_iter = mi, !.mass = m, !.e_N = e,
                   !.nT = nT, !.prox_r = r, !.q0 = sc[1], !.u0 = sc[2],
                   !.la_N0 = <<w * m, w * m>>,
                   !.la_T0 = [c \in 1..(NN * nT) |-> w * m]] :
        dt \in 1..2, t1 \in 1..MaxT, mi \in 0..MaxIter, m \in 1..2, e \in 0..1,
        nT \in 0..2, r \in 1..2, sc \in Scenarios, w \in 0..1 }

Constructions ==
    { [Base EXCEPT !.kind = kd, !.t0 = t0, !.t1 = t1] :
        kd \in {"Moreau", "Moreau_sym"}, t0 \in 0..2, t1 \in 0..MaxT }

Rods ==
    { [Base EXCEPT !.rod = <<dx, dy, 0>>] : dx \in 0..MaxRodOffset, dy \in 0..MaxRodOffset }

\* the systems integrated with Moreau_sym: no contacts, the rotor is driven
SymDynamics ==
    { [Base EXCEPT !.kind = "Moreau_sym", !.dt = dt, !.t1 = t1, !.newton_max_iter = mi,
                   !.mass = m, !.la_g0 = <<la>>, !.q0 = sc[1], !.u0 = sc[2]] :
        dt \in 1..2, t1 \in 1..MaxT, mi \in 0..MaxIter, m \in 1..2, la \in 0..1,
        sc \in Scenarios }

\* callers that ask for a run to go on after a non-converged step
Policies ==
    { [Base EXCEPT !.continue_unconverged = TRUE, !.dt = dt, !.max_iter = mi,
                   !.prox_r = r, !.q0 = sc[1], !.u0 = sc[2]] :
        dt \in 1..2, mi \in 0..MaxIter, r \in 1..2, sc \in Scenarios }

\* initial poses of a connected body
Poses ==
    { [r |-> r, A |-> A] : r \in { <<0, 0, 0>>, <<1, -2, 3>> }, A \in {Eye3, Rz, Rx} }

\* two bodies joined by a RigidConnection or a RigidConnectionCable
Connections ==
    { [Base EXCEPT !.element = el, !.impl = im,
                   !.body1 = [kind |-> bk[1], q0 |-> p1],
                   !.body2 = [kind |-> bk[2], q0 |-> p2]] :
        el \in {"RigidConnection", "RigidConnectionCable"},
        im \in {"constraints", "implicit"},
        bk \in { <<"RigidBodyQuaternion", "RigidBodyQuaternion">>,
                 <<"RigidBodyEuler", "RigidBodyEuler">>,
                 <<"RigidBodyEuler", "RigidBodyQuaternion">> },
        p1 \in Poses, p2 \in Poses }

\* the configurations g is evaluated at: the initial one, the initial one with
\* both bodies moved by the same rigid motion, and one with the second body
\* moved against the first
EvalConfigs(f) ==
    LET move(q) == [r |-> VAdd(MatVec(Ry, q.r), <<1, 0, 2>>), A |-> MatMul(Ry, q.A)]
        drift(q) == [r |-> VAdd(q.r, <<1, 0, 0>>), A |-> MatMul(q.A, Rz)]
    IN  { [cfg |-> "initial", q1 |-> f.body1.q0, q2 |-> f.body2.q0],
          [cfg |-> "moved", q1 |-> move(f.body1.q0), q2 |-> move(f.body2.q0)],
          [cfg |-> "drifted", q1 |-> f.body1.q0, q2 |-> drift(f.body2.q0)] }

Systems ==
    {f \in Dynamics : f.nT = 2 => f.mass = 1} \cup Constructions \cup Rods
        \cup SymDynamics \cup Policies \cup Connections

(***************************************************************************)
(* State                                                                   *)
(*   pc     : where the program is: "new", "assembled", "assembly_failed", *)
(*            "constructed", "ctor_failed", "solving" (head of the loop of *)
(*            solve), "in_step" (inside the fixed-point loop of step),     *)
(*            "stepped" (step has returned), "raised", "returned"; in      *)
(*            Moreau_sym.solve "sym_solving", "sym_stepped", "sym_raised"  *)
(*            (step has raised), "sym_returned"                            *)
(*   model  : the mechanical system                                        *)
(*   rod    : the Rod object; dist is <<>> until assembler_callback ran    *)
(*   con    : the RigidConnection(Cable) object of a system that has one,  *)
(*            <<>> until constructed; last is the result of its last       *)
(*            evaluation ("con_constructed", "con_assembled" in pc)        *)
(*   solver : the solver object, <<>> until constructed                    *)
(*   loc    : the locals of solve (k is the number of completed passes,    *)
(*            ncb the number of calls of solver_step_callback made)        *)
(*   st     : the locals of the current call of step                       *)
(*   traj   : the lists q, u, la_g, la_gamma, la_N, la_T of solve          *)
(*   sol    : the returned Solution, <<>> until solve returns              *)
(*   nstep  : the number of calls of step made so far                      *)
(***************************************************************************)
VARIABLES pc, model, rod, con, solver, loc, st, traj, sol, nstep

vars == <<pc, model, rod, con, solver, loc, st, traj, sol, nstep>>

Init ==
    /\ pc = "new"
    /\ model \in Systems
    /\ rod = [dist |-> <<>>]
    /\ con = <<>>
    /\ solver = <<>>
    /\ loc = <<>>
    /\ st = <<>>
    /\ traj = <<>>
    /\ sol = <<>>
    /\ nstep = 0

\* rod.py:82-90  the rod's length is taken from the initial configuration
AssembleRod ==
    /\ pc = "new"
    /\ model.element = "Rod"
    /\ LET dist == norm(model.rod)
       IN  /\ rod' = [dist |-> <<dist>>]
           /\ pc' = IF RodTooShort(dist) THEN "assembly_failed" ELSE "assembled"
    /\ UNCHANGED <<model, con, solver, loc, st, traj, sol, nstep>>

\* moreau.py:11-29 (Moreau) and 158-194 (Moreau_sym)
Construct ==
    /\ pc = "assembled"
    /\ IF AddRaises(T1Value(model.t1, model.t0))
       THEN pc' = "ctor_failed" /\ solver' = solver
       ELSE /\ pc' = "constructed"
            /\ \E excess \in ArangeExcess(model.t0, model.t1 + model.dt, model.dt) :
                   solver' = NewSolver(model, excess)
    /\ UNCHANGED <<model, rod, con, loc, st, traj, sol, nstep>>

\* moreau.py:119-134
SolveStart ==
    /\ pc = "constructed"
    /\ solver.kind = "Moreau"
    /\ loc' = [k |-> 0, tk |-> model.t0, qk |-> model.q0, uk |-> model.u0,
               la_gk |-> model.la_g0, la_gammak |-> <<>>,
               la_Nk |-> model.la_N0, la_Tk |-> model.la_T0, ncb |-> 0]
    /\ traj' = [q |-> <<model.q0>>, u |-> <<model.u0>>, la_g |-> <<model.la_g0>>,
                la_gamma |-> << <<>> >>, la_N |-> <<model.la_N0>>,
                la_T |-> <<model.la_T0>>]
    /\ pc' = "solving"
    /\ UNCHANGED <<model, rod, con, solver, st, sol, nstep>>

\* moreau.py:135-136 with 33-82: the next time of self.t[:-1] is taken and
\* step is called; it runs up to the head of its fixed-point loop
StepCall ==
    /\ pc = "solving"
    /\ loc.k < Len(solver.t) - 1
    /\ LET tk == solver.t[loc.k + 1]
           s == StepBegin(model, solver, tk, loc.qk, loc.uk, loc.la_Nk, loc.la_Tk)
       IN  /\ loc' = [loc EXCEPT !.tk = tk]
           /\ st' = s
           /\ pc' = IF s.done THEN "stepped" ELSE "in_step"
    /\ nstep' = nstep + 1
    /\ UNCHANGED <<model, rod, con, solver, traj, sol>>

\* moreau.py:83-112: one iteration of the fixed-point loop
FixpointIteration ==
    /\ pc = "in_step"
    /\ LET s == FixIter(model, solver, st)
       IN  /\ st' = s
           /\ pc' = IF s.done THEN "stepped" ELSE "in_step"
    /\ UNCHANGED <<model, rod, con, solver, loc, traj, sol, nstep>>

\* faulty variant of MustRaise: a non-converged step is accepted
MustRaiseNever(converged) == FALSE

\* faulty variant of MustRaise: a caller's wish to continue is honoured
MustRaiseUnlessOptIn(converged) == ~converged /\ ~model.continue_unconverged

\* moreau.py:138  if not converged
MustRaise(converged) == ~converged

\* moreau.py:138-139
SolveRaise ==
    /\ pc = "stepped"
    /\ MustRaise(st.converged)
    /\ pc' = "raised"
    /\ UNCHANGED <<model, rod, con, solver, loc, st, traj, sol, nstep>>

\* faulty variant of PostStep: the callback is not called
PostStepSkipped(f, t, q, u) == <<q, u>>

\* moreau.py:141 and 324  qk1, uk1 = self.model.solver_step_callback(tk1, qk1, uk1)
PostStep(f, t, q, u) == solver_step_callback(f, t, q, u)

\* faulty variant of ListAppend: the new entry replaces the last one
ListAppendOverwrite(lst, x) == [lst EXCEPT ![Len(lst)] = x]

\* moreau.py:143-148 and 326-329  list.append
ListAppend(lst, x) == Append(lst, x)

\* faulty variant of NextWarmStart: the contact values of the step are dropped
NextWarmStartStale(la_k, la_k1) == la_k

\* moreau.py:151  la_Nk, la_Tk = la_Nk1, la_Tk1
NextWarmStart(la_k, la_k1) == la_k1

\* moreau.py:141-151
SolveAccept ==
    /\ pc = "stepped"
    /\ ~MustRaise(st.converged)
    /\ LET r == StepResult(st)
           cb == PostStep(model, r.tk1, r.qk1, r.uk1)
       IN  /\ traj' = [q |-> ListAppend(traj.q, cb[1]), u |-> ListAppend(traj.u, cb[2]),
                       la_g |-> ListAppend(traj.la_g, r.la_gk1),
                       la_gamma |-> ListAppend(traj.la_gamma, r.la_gammak1),
                       la_N |-> ListAppend(traj.la_N, r.la_Nk1),
                       la_T |-> ListAppend(traj.la_T, r.la_Tk1)]
           /\ loc' = [loc EXCEPT !.k = @ + 1, !.qk = cb[1], !.uk = cb[2],
                                 !.la_gk = r.la_gk1, !.la_gammak = r.la_gammak1,
                                 !.la_Nk = NextWarmStart(@, r.la_Nk1),
                                 !.la_Tk = NextWarmStart(@, r.la_Tk1),
                                 !.ncb = @ + 1]
    /\ pc' = "solving"
    /\ UNCHANGED <<model, rod, con, solver, st, sol, nstep>>

\* moreau.py:155
SolveReturn ==
    /\ pc = "solving"
    /\ loc.k >= Len(solver.t) - 1
    /\ sol' = [t |-> solver.t, q |-> traj.q, u |-> traj.u, la_g |-> traj.la_g,
               la_gamma |-> traj.la_gamma, la_N |-> traj.la_N]
    /\ pc' = "returned"
    /\ UNCHANGED <<model, rod, con, solver, loc, st, traj, nstep>>

\* moreau.py:305-316
SymSolveStart ==
    /\ pc = "constructed"
    /\ solver.kind = "Moreau_sym"
    /\ loc' = [k |-> 0, tk |-> model.t0, qk |-> model.q0, uk |-> model.u0,
               la_gk |-> model.la_g0, la_gammak |-> <<>>, ncb |-> 0]
    /\ traj' = [q |-> <<model.q0>>, u |-> <<model.u0>>, la_g |-> <<model.la_g0>>,
                la_gamma |-> << <<>> >>]
    /\ pc' = "sym_solving"
    /\ UNCHANGED <<model, rod, con, solver, st, sol, nstep>>

\* moreau.py:319-320 with 259-302: the next time of self.t[:-1] is taken and
\* step is called; it returns a converged result or raises RuntimeError
SymStepCall ==
    /\ pc = "sym_solving"
    /\ loc.k < Len(solver.t) - 1
    /\ LET tk == solver.t[loc.k + 1]
           s == step_sym(model, solver, tk, loc.qk, loc.uk, loc.la_gk, loc.la_gammak)
       IN  /\ loc' = [loc EXCEPT !.tk = tk]
           /\ st' = s
           /\ solver' = [solver EXCEPT !.Mk1 = s.Mk1, !.W_gk1 = s.W_gk1]
           /\ pc' = IF s.converged THEN "sym_stepped" ELSE "sym_raised"
    /\ nstep' = nstep + 1
    /\ UNCHANGED <<model, rod, con, traj, sol>>

\* moreau.py:324-332
SymSolveAccept ==
    /\ pc = "sym_stepped"
    /\ LET cb == PostStep(model, st.tk1, st.qk1, st.uk1)
       IN  /\ traj' = [q |-> ListAppend(traj.q, cb[1]), u |-> ListAppend(traj.u, cb[2]),
                       la_g |-> ListAppend(traj.la_g, st.la_gk1),
                       la_gamma |-> ListAppend(traj.la_gamma, st.la_gammak1)]
           /\ loc' = [loc EXCEPT !.k = @ + 1, !.qk = cb[1], !.uk = cb[2],
                                 !.la_gk = st.la_gk1, !.la_gammak = st.la_gammak1,
                                 !.ncb = @ + 1]
    /\ pc' = "sym_solving"
    /\ UNCHANGED <<model, rod, con, solver, st, sol, nstep>>

\* moreau.py:335
SymSolveReturn ==
    /\ pc = "sym_solving"
    /\ loc.k >= Len(solver.t) - 1
    /\ sol' = [t |-> solver.t, q |-> traj.q, u |-> traj.u, la_g |-> traj.la_g,
               la_gamma |-> traj.la_gamma]
    /\ pc' = "sym_returned"
    /\ UNCHANGED <<model, rod, con, solver, loc, st, traj, nstep>>

\* RigidConnection.__init__ or RigidConnectionCable.__init__
ElementConstruct ==
    /\ pc = "new"
    /\ model.element # "Rod"
    /\ con' = NewElement(model)
    /\ pc' = "con_constructed"
    /\ UNCHANGED <<model, rod, solver, loc, st, traj, sol, nstep>>

\* assembler_callback
ElementAssemble ==
    /\ pc = "con_constructed"
    /\ con' = assembler_callback(model, con)
    /\ pc' = "con_assembled"
    /\ UNCHANGED <<model, rod, solver, loc, st, traj, sol, nstep>>

\* a call of g(t, q)
ElementEvalG ==
    /\ pc = "con_assembled"
    /\ \E e \in EvalConfigs(model) :
          con' = [con EXCEPT !.last = [name |-> "g", cfg |-> e.cfg,
                                       value |-> g_con(con, e.q1, e.q2),
                                       raised |-> FALSE, shape |-> <<>>, index |-> <<>>]]
    /\ UNCHANGED <<pc, model, rod, solver, loc, st, traj, sol, nstep>>

\* a call of g_q, W_g or g_ddot_u with the assembler's coo
ElementEvalJacobian ==
    /\ pc = "con_assembled"
    /\ \E name \in {"g_q", "W_g", "g_ddot_u"} :
          LET blk == JacobianBlock(con, name)
          IN  con' = [con EXCEPT !.last = [name |-> name, cfg |-> "initial", value |-> <<>>,
                                           raised |-> blk.raised, shape |-> blk.shape,
                                           index |-> blk.index]]
    /\ UNCHANGED <<pc, model, rod, solver, loc, st, traj, sol, nstep>>

Next ==
    \/ ElementConstruct
    \/ ElementAssemble
    \/ ElementEvalG
    \/ ElementEvalJacobian
    \/ AssembleRod
    \/ Construct
    \/ SolveStart
    \/ StepCall
    \/ FixpointIteration
    \/ SolveRaise
    \/ SolveAccept
    \/ SolveReturn
    \/ SymSolveStart
    \/ SymStepCall
    \/ SymSolveAccept
    \/ SymSolveReturn

Spec == Init /\ [][Next]_vars

\* every linear solve is exact in the integers used: A x = b
SolveExact ==
    pc \in {"in_step", "stepped"} =>
        /\ \A i \in 1..NU : st.A.M[i] * st.uk1[i] + st.A.UR[i] * st.la_gk1[1] = st.b.u[i]
        /\ Dot(st.A.LL, st.uk1) = st.b.g

(***************************************************************************)
(* Properties                                                              *)
(***************************************************************************)
InStep == pc \in {"in_step", "stepped"}

Range(seq) == {seq[k] : k \in DOMAIN seq}

\* C1: a step of solve that has an active contact and leaves its fixed-point
\* loop after fix_point_max_iter iterations without convergence makes solve
\* raise: the next transition is the raise, it appends nothing to the
\* trajectory, calls step no more and returns no Solution, and nothing
\* happens after the raise.
C1_RaiseOnExhausted ==
    [][/\ (/\ pc = "stepped"
           /\ AnyTrue(st.I_N)
           /\ st.nprox = solver.fix_point_max_iter
           /\ ~st.converged)
          => (pc' = "raised" /\ traj' = traj /\ nstep' = nstep /\ sol' = <<>>)
       /\ pc # "raised"]_vars

C1_Witness ==
    /\ pc = "raised"
    /\ AnyTrue(st.I_N)
    /\ st.nprox = solver.fix_point_max_iter
    /\ st.nprox > 0
    /\ ~ErrorBelowTol(st.error)
    /\ Len(traj.q) = nstep

\* C2: with an iteration budget of 0 and some gap g_N[i] <= 0, the result of
\* step has converged = false and iteration count 0 (and no prox update ran).
C2_ZeroBudgetNotConverged ==
    (/\ pc = "stepped"
     /\ solver.fix_point_max_iter = 0
     /\ \E i \in 1..NN : st.g_N[i] <= 0)
    => (/\ StepResult(st).converged = FALSE
        /\ StepResult(st).j = 0
        /\ st.nprox = 0)

C2_Witness ==
    /\ pc = "stepped"
    /\ solver.fix_point_max_iter = 0
    /\ \E i \in 1..NN : st.g_N[i] <= 0

\* C3: in every step the mask I_N is true at i exactly when the gap of contact
\* i, evaluated at the configuration qk + dt * q_dot(tk, qk, uk) of the step,
\* is <= 0; it is determined by these gaps alone, whatever the previous step's
\* contact values were.
C3_ActiveSetFromGap ==
    InStep =>
        LET qk1 == VAdd(loc.qk, VScale(solver.dt, q_dot(model, loc.tk, loc.qk, loc.uk)))
            gap == g_N(model, loc.tk + solver.dt, qk1)
        IN  \A i \in 1..NN : (st.I_N[i] = TRUE) <=> (gap[i] <= 0)

\* a contact that carried a percussion in the previous step has zero gap now
\* and another one is open
C3_Witness ==
    /\ pc = "stepped"
    /\ loc.k > 0
    /\ \E i \in 1..NN : st.g_N[i] = 0 /\ st.I_N[i] /\ loc.la_Nk[i] > 0
    /\ \E i \in 1..NN : st.g_N[i] > 0 /\ ~st.I_N[i]

\* C4: the friction index set I_T holds exactly the indices the connectivity
\* table lists for the active contacts, for 0, 1 and 2 friction components
\* per contact.
C4_FrictionSetIsUnion ==
    InStep =>
        /\ Range(st.I_T) =
             UNION {Range(NT_connectivity(model)[i]) : i \in {n \in 1..NN : st.I_N[n]}}
        /\ Len(st.I_T) = model.nT * Cardinality({n \in 1..NN : st.I_N[n]})

C4_Witness ==
    /\ pc = "stepped"
    /\ model.nT = 2
    /\ st.I_N = <<FALSE, TRUE>>
    /\ st.I_T = <<3, 4>>

\* the warm-start contact values compared in C5
WarmStarts(f) ==
    { <<[i \in 1..NN |-> a[i] * f.mass], [c \in 1..(NN * f.nT) |-> b * f.mass]>> :
        a \in [1..NN -> 0..1], b \in 0..1 }

\* C5: when the step has an empty active set, step returns the same result
\* for every warm start la_Nk, la_Tk (zero or not) at the same (tk, qk, uk).
C5_WarmStartNonInterference ==
    (pc = "stepped" /\ ~AnyTrue(st.I_N)) =>
        \A w \in WarmStarts(model) :
            step(model, solver, loc.tk, loc.qk, loc.uk, w[1], w[2]) = StepResult(st)

C5_Witness ==
    /\ pc = "stepped"
    /\ ~AnyTrue(st.I_N)
    /\ \E i \in 1..NN : loc.la_Nk[i] > 0
    /\ \E c \in DOMAIN loc.la_Tk : loc.la_Tk[c] # 0

\* C6: in a converged step, for every active contact i the returned normal
\* percussion is >= 0 and either it is 0 or the relative normal velocity
\* xi_N[i] = (W_N^T uk1 + e_N W_N^T uk)[i] of the returned velocity is zero up
\* to the tolerance of the convergence test: r_N |xi_N[i]| < tol * len(R).
C6_NormalComplementarity ==
    (pc = "stepped" /\ st.converged) =>
        LET r == StepResult(st)
            xi == [i \in 1..NN |->
                     Dot(W_N(model, r.tk1, r.qk1)[i], r.uk1)
                     + model.e_N * Dot(W_N(model, r.tk1, r.qk1)[i], loc.uk)]
            lenR == Cardinality({n \in 1..NN : st.I_N[n]}) + Len(st.I_T)
        IN  \A i \in 1..NN :
                st.I_N[i] =>
                    /\ r.la_Nk1[i] >= 0
                    /\ \/ r.la_Nk1[i] = 0
                       \/ prox_r_N(model) * Abs(xi[i]) < FixPointTol * lenR

\* a converged step with an active contact that carries a positive percussion
\* and was reached after a re-solve
C6_Witness ==
    /\ pc = "stepped"
    /\ st.converged
    /\ st.nprox >= 2
    /\ \E i \in 1..NN : st.I_N[i] /\ st.la_Nk1[i] > 0

\* C7: an integrator (Moreau or Moreau_sym) exists only for t1 > t0; for
\* t1 <= t0 construction fails and no step is ever executed.
C7_InvalidFinalTimeRejected ==
    /\ (solver # <<>>) => model.t1 > model.t0
    /\ (model.t1 <= model.t0) =>
           /\ pc \in {"new", "assembly_failed", "assembled", "ctor_failed"}
           /\ nstep = 0
    /\ (pc = "ctor_failed") => (model.t1 <= model.t0 /\ solver = <<>>)

C7_Witness ==
    /\ pc = "ctor_failed"
    /\ model.kind = "Moreau_sym"
    /\ model.t1 = model.t0

\* C8: a rod whose initial length is below the tolerance is rejected by
\* assembler_callback before any solver exists or any step runs; a rod of at
\* least the tolerance is accepted and keeps the initial length as dist.
C8_ShortRodRejected ==
    LET len2 == Dot(model.rod, model.rod)
    IN  /\ (len2 < RodTol * RodTol) =>
               (pc \in {"new", "assembly_failed"} /\ solver = <<>> /\ nstep = 0)
        /\ (pc = "assembly_failed") => len2 < RodTol * RodTol
        /\ (model.element = "Rod" /\ pc \notin {"new", "assembly_failed"}) =>
               /\ len2 >= RodTol * RodTol
               /\ Len(rod.dist) = 1
               /\ rod.dist[1] >= RodTol
               /\ rod.dist[1] * rod.dist[1] <= len2
               /\ len2 < (rod.dist[1] + 1) * (rod.dist[1] + 1)

\* two distinct attachment points closer than the tolerance
C8_Witness ==
    /\ pc = "assembly_failed"
    /\ model.rod[1] > 0
    /\ model.rod[2] > 0

\* C9: a step without active contact runs no prox update and no second solve;
\* its result is the trial solution, with converged = true, iteration count
\* 0, error 0 and zero contact values.
C9_NoContactDirectSolve ==
    (pc = "stepped" /\ ~AnyTrue(st.I_N)) =>
        LET r == StepResult(st)
        IN  /\ st.nprox = 0
            /\ st.nsolve = 1
            /\ r.uk1 = st.u_trial
            /\ r.converged = TRUE
            /\ r.j = 0
            /\ r.error.num = 0
            /\ r.la_Nk1 = Zeros(NN)
            /\ r.la_Tk1 = Zeros(NN * model.nT)

C9_Witness ==
    /\ pc = "stepped"
    /\ ~AnyTrue(st.I_N)
    /\ solver.fix_point_max_iter > 0
    /\ loc.la_Nk # Zeros(NN)

\* the velocity block of a right-hand side without contact forcing
PlainRhsU == VAdd([i \in 1..NU |-> st.M[i] * st.uk[i]], VScale(solver.dt, st.h))

LastPercussionChange ==
    Max2(MaxAbsTo([i \in 1..NN |->
                     IF st.I_N[i] THEN st.la_Nk1_i[i] - st.la_N_prev[i] ELSE 0], NN),
         MaxAbsTo([k \in 1..Len(st.I_T) |->
                     st.la_Tk1_i[st.I_T[k]] - st.la_T_prev[st.I_T[k]]], Len(st.I_T)))

\* the number of active contact values: active contacts and their friction
\* directions
ActiveEntries == Cardinality({i \in 1..NN : st.I_N[i]}) + Len(st.I_T)

\* C11 as stated: after a prox update the step is converged exactly when the
\* largest velocity change between two consecutive iterates is below the
\* tolerance.
C11_ConvergedOnVelocityChange ==
    (InStep /\ st.nprox > 0) => (st.converged <=> st.du < FixPointTol)

\* C11 amended: after a prox update the step is converged exactly when the
\* largest change of the active contact percussions between two consecutive
\* iterates, divided by the number of active contact values, is below the
\* tolerance; the velocity change plays no part.
C11_ConvergedOnPercussionChange ==
    (InStep /\ st.nprox > 0) =>
        (st.converged <=> LastPercussionChange < FixPointTol * ActiveEntries)

C11_Witness ==
    /\ InStep
    /\ st.nprox > 0
    /\ st.converged
    /\ LastPercussionChange >= FixPointTol
    /\ st.du >= FixPointTol

\* C12: the iteration count in the result of every step equals the number
\* of fixed-point iterations (prox updates) executed in that step.
C12_IterationCountIsExecuted ==
    pc = "stepped" => StepResult(st).j = st.nprox

\* C13 as stated: the run of a caller who opted in to continue with
\* unconverged steps is not aborted by a non-converged step.
C13_OptInNeverAborts ==
    (pc = "raised" /\ ~st.converged) => ~model.continue_unconverged

\* C13 amended: whatever the caller asked for, a step that returns without
\* convergence makes solve raise: the next transition is the raise, and the
\* step's iterate is neither stored nor used as the start of a further step.
C13_NonConvergenceAlwaysAborts ==
    [][(pc = "stepped" /\ ~st.converged)
          => (pc' = "raised" /\ traj' = traj /\ loc' = loc /\ nstep' = nstep)]_vars

C13_Witness ==
    /\ pc = "raised"
    /\ model.continue_unconverged
    /\ ~st.converged
    /\ st.nprox = solver.fix_point_max_iter
    /\ st.nprox > 0
    /\ loc.k > 0

\* C14 as stated: the accepted position is the two-stage midpoint update,
\* q_{n+1} = q_n + dt/2 q_dot(t_n, q_n, u_n) + dt/2 q_dot(., ., u_{n+1});
\* with q_dot = u of the systems explored, and doubled to stay in the integers.
C14_MidpointPosition ==
    pc = "stepped" =>
        \A i \in 1..NU :
            2 * StepResult(st).qk1[i]
                = 2 * st.qk[i] + solver.dt * st.uk[i] + solver.dt * StepResult(st).uk1[i]

\* C14 amended: the position of a step is the single explicit Euler update
\* q_{n+1} = q_n + dt q_dot(t_n, q_n, u_n); the gaps and the active set are
\* evaluated at (t_n + dt, q_{n+1}), and the position returned does not
\* depend on the new velocity.
C14_ExplicitEulerPosition ==
    InStep =>
        /\ st.tk1 = st.tk + solver.dt
        /\ st.qk1 = [i \in 1..NU |-> st.qk[i] + solver.dt * q_dot(model, st.tk, st.qk, st.uk)[i]]
        /\ StepResult(st).qk1 = st.qk1
        /\ st.g_N = g_N(model, st.tk + solver.dt, st.qk1)
        /\ st.I_N = [i \in 1..NN |-> st.g_N[i] <= 0]

C14_Witness ==
    /\ pc = "stepped"
    /\ solver.dt = 2
    /\ st.converged
    /\ AnyTrue(st.I_N)
    /\ st.uk1 # st.uk
    /\ st.uk # Zeros(NU)
    /\ \E i \in 1..NN : g_N(model, st.tk + 1, VAdd(st.qk, st.uk))[i] > 0 /\ st.I_N[i]

Solving == pc \in {"solving", "sym_solving"}

Stepped == pc \in {"stepped", "sym_stepped"}

\* C15: in Moreau.solve and Moreau_sym.solve every accepted step applies
\* solver_step_callback once to the (t, q, u) that step returned; what is
\* appended to q and u and what the next call of step receives is the
\* callback's output; the callback runs at no other place, so the number of
\* its calls is the number of accepted steps.
C15_CallbackOncePerAcceptedStep ==
    [][/\ (Stepped /\ Solving')
            => LET cb == solver_step_callback(model, st.tk1, st.qk1, st.uk1)
               IN  /\ traj'.q = Append(traj.q, cb[1])
                   /\ traj'.u = Append(traj.u, cb[2])
                   /\ loc'.qk = cb[1]
                   /\ loc'.uk = cb[2]
                   /\ loc'.ncb = loc.ncb + 1
       /\ (Solving /\ nstep' = nstep + 1)
            => (st'.qk = loc.qk /\ st'.uk = loc.uk
                /\ st'.qk = traj.q[Len(traj.q)] /\ st'.uk = traj.u[Len(traj.u)])
       /\ (loc # <<>> /\ ~Stepped) => loc'.ncb = loc.ncb
       /\ Solving => (loc.ncb = loc.k /\ loc.ncb = Len(traj.q) - 1)]_vars

C15_Witness ==
    /\ Solving
    /\ loc.ncb = 2
    /\ st.qk1[4] = 4
    /\ loc.qk[4] = 0
    /\ traj.q[Len(traj.q)] = loc.qk

\* C16: within one step the matrix of every linear solve is the matrix of
\* the trial solve, built from the M, W_g and g_dot_u evaluated once at
\* (tk1, qk1); the iterations of the fixed-point loop change the right-hand
\* side only.
C16_SameMatrixInEverySolve ==
    [][/\ InStep
            => /\ st.A = st.A0
               /\ st.A0 = [M |-> M(model, st.tk1, st.qk1),
                           UR |-> VScale(-solver.dt, W_g(model, st.tk1, st.qk1)),
                           LL |-> g_dot_u(model, st.tk1, st.qk1)]
       /\ (pc = "in_step")
            => (st'.A = st.A /\ st'.M = st.M /\ st'.W_g = st.W_g
                /\ st'.g_dot_u = st.g_dot_u /\ st'.A0 = st.A0)]_vars

C16_Witness ==
    /\ InStep
    /\ solver.dt = 2
    /\ st.nsolve >= 2
    /\ st.b # st.b0
    /\ st.uk1 # st.u_trial

\* C17 as stated: a step assembles and factorizes its matrix once, however
\* many fixed-point iterations it runs.
C17_OneFactorizationPerStep ==
    pc = "stepped" => (st.nbuild = 1 /\ st.nsolve = 1)

\* the prox updates of the current step that did not meet the tolerance
NonConvergedUpdates == IF st.converged THEN st.nprox - 1 ELSE st.nprox

\* C17 amended: a step assembles its matrix and factorizes it (spsolve) once
\* for the trial solve and once more after every prox update that does not
\* meet the tolerance; the counts start anew with every call of step.
C17_FactorizationPerSolve ==
    [][/\ (InStep /\ AnyTrue(st.I_N))
            => (st.nsolve = 1 + NonConvergedUpdates /\ st.nbuild = st.nsolve)
       /\ (InStep /\ ~AnyTrue(st.I_N)) => (st.nsolve = 1 /\ st.nbuild = 1)
       /\ (pc = "solving" /\ nstep' = nstep + 1)
            => (st'.nsolve = 1 /\ st'.nbuild = 1 /\ st'.nprox = 0)]_vars

C17_Witness ==
    /\ pc = "stepped"
    /\ nstep >= 2
    /\ st.nsolve = 2
    /\ st.nprox = 2
    /\ st.converged

\* C18 as stated: the lower-left block of the matrix of a step is the
\* transpose of its upper-right block -W_g, with the same sign and scaling.
C18_SymmetricSaddlePoint ==
    InStep => (st.A0.LL = st.A0.UR /\ st.A0.UR = VScale(-1, st.W_g))

\* C18 amended: the matrix of a step is [[M, -dt W_g], [g_dot_u, 0]]: the
\* upper-right block carries the factor -dt, the lower-left block is
\* g_dot_u = W_g^T unscaled and with positive sign, so the two blocks differ
\* wherever W_g is not zero.
C18_ScaledUnsymmetricMatrix ==
    InStep =>
        /\ st.A0.M = st.M
        /\ \A i \in 1..NU :
              /\ st.A0.UR[i] = -(solver.dt * st.W_g[i])
              /\ st.A0.LL[i] = st.W_g[i]
              /\ st.W_g[i] # 0 => st.A0.LL[i] # st.A0.UR[i]

C18_Witness ==
    /\ InStep
    /\ solver.dt = 2
    /\ st.A0.UR = <<0, 0, 0, -2>>
    /\ st.A0.LL = <<0, 0, 0, 1>>
    /\ st.la_gk1 # <<0>>

\* the last entry of a list
Last(seq) == seq[Len(seq)]

\* C19: the contact values a call of step receives, and with which it seeds
\* la_Nk0, la_Nk1_i, la_Tk0, la_Tk1_i, are those the last accepted step
\* returned and solve stored (the model's initial values for the first
\* call); an accepted step hands exactly its returned values on.
C19_WarmStartChaining ==
    [][/\ (pc = "solving" /\ nstep' = nstep + 1)
            => /\ st'.la_Nk = Last(traj.la_N)
               /\ st'.la_Tk = Last(traj.la_T)
               /\ nstep = 0 => (st'.la_Nk = model.la_N0 /\ st'.la_Tk = model.la_T0)
               /\ st'.la_Nk0 = st'.la_Nk /\ st'.la_Nk1_i = st'.la_Nk
               /\ st'.la_Tk0 = st'.la_Tk /\ st'.la_Tk1_i = st'.la_Tk
       /\ (pc = "stepped" /\ pc' = "solving")
            => /\ Last(traj'.la_N) = StepResult(st).la_Nk1
               /\ Last(traj'.la_T) = StepResult(st).la_Tk1
               /\ loc'.la_Nk = StepResult(st).la_Nk1
               /\ loc'.la_Tk = StepResult(st).la_Tk1]_vars

C19_Witness ==
    /\ InStep
    /\ nstep >= 2
    /\ AnyTrue(st.I_N)
    /\ st.la_Nk # model.la_N0
    /\ st.la_Nk # Zeros(NN)
    /\ st.la_Nk = Last(traj.la_N)
    /\ st.la_Tk = Last(traj.la_T)
    /\ st.la_Tk # Zeros(Len(st.la_Tk))

\* C20: the lists of solve start with the initial state, an accepted step
\* appends one entry to each of them and leaves the entries before it as they
\* were, nothing else changes them, and the Solution returned holds them with
\* one entry per time sample.
C20_TrajectoryAppendOnly ==
    [][/\ (pc = "constructed" /\ pc' # pc)
            => /\ traj'.q = <<model.q0>> /\ traj'.u = <<model.u0>>
               /\ traj'.la_g = <<model.la_g0>>
               /\ \A key \in DOMAIN traj' : Len(traj'[key]) = 1
       /\ (Stepped /\ Solving')
            => /\ DOMAIN traj' = DOMAIN traj
               /\ \A key \in DOMAIN traj :
                     /\ Len(traj'[key]) = Len(traj[key]) + 1
                     /\ SubSeq(traj'[key], 1, Len(traj[key])) = traj[key]
       /\ (traj # <<>> /\ ~(Stepped /\ Solving')) => traj' = traj
       /\ Solving => \A key \in DOMAIN traj : Len(traj[key]) = loc.k + 1
       /\ (pc \in {"returned", "sym_returned"})
            => /\ \A key \in DOMAIN traj : Len(traj[key]) = Len(solver.t)
               /\ \A key \in DOMAIN sol \ {"t"} : sol[key] = traj[key]
               /\ sol.t = solver.t]_vars

C20_Witness ==
    /\ pc \in {"returned", "sym_returned"}
    /\ Len(solver.t) = 4
    /\ Len(sol.q) = 4
    /\ sol.q[1] = model.q0
    /\ sol.q[2] # sol.q[1]
    /\ sol.q[3] # sol.q[2]
    /\ sol.q[4] # sol.q[3]

\* C21: the Solution returned by Moreau.solve holds, under its name, every
\* list solve accumulated, the friction history la_T among them.
C21_SolutionHoldsAllLists ==
    pc = "returned" =>
        \A key \in DOMAIN traj : key \in DOMAIN sol /\ sol[key] = traj[key]

\* C22: a step runs at most fix_point_max_iter passes of its fixed-point
\* loop, each pass using up one of them; solve calls step at most len(t) - 1
\* times, raises at the first step that did not converge, and nothing
\* happens after it raised or returned.
C22_BoundedRun ==
    [][/\ InStep => (st.nprox <= solver.fix_point_max_iter /\ st.it <= st.nprox)
       /\ (pc = "in_step")
            => (st.nprox < solver.fix_point_max_iter /\ st'.nprox = st.nprox + 1)
       /\ (pc \in {"solving", "in_step", "stepped", "raised", "returned"})
            => (nstep <= Len(solver.t) - 1 /\ nstep' <= Len(solver.t) - 1)
       /\ (pc = "solving" /\ pc' # "returned") => nstep' = nstep + 1
       /\ (pc' = "raised") => (~st.converged /\ Len(traj.q) = nstep)
       /\ (pc' = "returned") => (Len(traj.q) = nstep + 1 /\ nstep = Len(solver.t) - 1)
       /\ pc \notin {"raised", "returned"}]_vars

C22_Witness ==
    /\ pc = "raised"
    /\ solver.fix_point_max_iter = 2
    /\ st.nprox = 2
    /\ nstep = Len(solver.t) - 1
    /\ nstep >= 2

\* the B-frame offsets of the connection
Offsets(c) == <<c.K1_r_S1B, c.K2_r_S2B, c.A_K1B, c.A_K2B>>

\* C23: assembler_callback takes the B-frame offsets from the initial
\* configuration of the two bodies (the B-frame is the frame of the first
\* body); evaluations of g and of the Jacobians leave them as they are; and g
\* at the initial configuration is the zero vector whatever the initial
\* relative pose, also after evaluations elsewhere.
C23_OffsetsCapturedAtAssembly ==
    [][/\ (pc = "con_constructed")
            => /\ con'.K1_r_S1B = <<0, 0, 0>>
               /\ con'.A_K1B = Eye3
               /\ MatVec(model.body2.q0.A, con'.K2_r_S2B)
                      = VSub(model.body1.q0.r, model.body2.q0.r)
               /\ MatMul(model.body2.q0.A, con'.A_K2B) = model.body1.q0.A
       /\ (pc = "con_assembled") => Offsets(con') = Offsets(con)
       /\ (pc = "con_assembled" /\ con'.last.name = "g" /\ con'.last.cfg = "initial")
            => con'.last.value = Zeros(Len(con'.last.value))]_vars

C23_Witness ==
    /\ pc = "con_assembled"
    /\ con.last.name = "g"
    /\ con.last.cfg = "initial"
    /\ con.last.value = <<0, 0, 0, 0, 0, 0>>
    /\ model.body1.q0.r # model.body2.q0.r
    /\ model.body1.q0.A = Rz
    /\ model.body2.q0.A = Rx
    /\ con.K2_r_S2B # <<0, 0, 0>>
    /\ con.A_K2B # Eye3

\* C24: the number of multipliers a connection declares is the number of
\* components of its g.
C24_MultipliersMatchResidual ==
    (pc = "con_assembled" /\ con.last.name = "g") => Len(con.last.value) = con.nla_g

\* C25: the dense block an element hands to coo.extend has the shape of the
\* index pair it is handed with, and the call is reached.
C25_BlockShapeMatchesIndex ==
    (pc = "con_assembled" /\ con.last.name \in {"g_q", "W_g", "g_ddot_u"})
        => (~con.last.raised /\ con.last.shape = con.last.index)

\* the velocity the linear system of the current step gives with the contact
\* values la_N, la_T on its right-hand side
VelocityWith(la_N, la_T) ==
    spsolve(st.A, Rhs(st.M, st.uk, solver.dt, st.h,
                      ContactForcing(st.W_N, st.W_T, st.I_N, st.I_T, la_N, la_T),
                      st.chi_g)).u

\* C26 as stated: in a converged step with an active contact the returned
\* velocity solves the linear system whose right-hand side holds the contact
\* percussions the step returns.
C26_VelocityFromReturnedPercussions ==
    (pc = "stepped" /\ st.converged /\ AnyTrue(st.I_N))
        => StepResult(st).uk1 = VelocityWith(StepResult(st).la_Nk1, StepResult(st).la_Tk1)

\* C26 amended: the tolerance is tested right after the prox update and a
\* converged update leaves the loop without another solve; the returned
\* velocity solves the linear system whose right-hand side holds the contact
\* values the converged update was compared with (the previous iterate, or
\* the warm start when the first update converges), and the returned
\* percussions differ from those by less than the tolerance measure.
C26_VelocityFromPreviousPercussions ==
    (pc = "stepped" /\ st.converged /\ AnyTrue(st.I_N))
        => /\ StepResult(st).uk1 = VelocityWith(st.la_N_prev, st.la_T_prev)
           /\ st.nsolve = st.nprox
           /\ LastPercussionChange < FixPointTol * ActiveEntries
           /\ \A i \in 1..NN : st.I_N[i] => StepResult(st).la_Nk1[i] = st.la_Nk1_i[i]

C26_Witness ==
    /\ pc = "stepped"
    /\ st.converged
    /\ AnyTrue(st.I_N)
    /\ st.nprox = 2
    /\ LastPercussionChange > 0
    /\ StepResult(st).uk1 # VelocityWith(StepResult(st).la_Nk1, StepResult(st).la_Tk1)

C28_GridEndsAtFirstSampleReachingT1 ==
    (solver # <<>>)
        => LET N == Len(solver.t) - 1
               t_last == solver.t[Len(solver.t)]
           IN  /\ N >= 1
               /\ \A k \in 0..N : solver.t[k + 1] = model.t0 + k * model.dt
               /\ model.t0 + N * model.dt >= model.t1
               /\ model.t0 + (N - 1) * model.dt < model.t1
               /\ model.t1 <= t_last /\ t_last < model.t1 + model.dt
               /\ (t_last = model.t1) <=> ((model.t1 - model.t0) % model.dt = 0)
               /\ (pc \in {"returned", "sym_returned"}) => nstep = N

\* the contact that friction entry k belongs to is active
OwnerActive(k) ==
    \E i \in 1..NN : st.I_N[i] /\ \E j \in 1..model.nT : NT_connectivity(model)[i][j] = k

\* C29: in what Moreau.step returns an entry of la_N or la_T is nonzero only
\* for an active contact of a converged step, where it is the value of the
\* last prox update; the entries of inactive contacts and all entries of a
\* non-converged step are zero, whatever the last iterate was.
C29_ReturnedPercussionsOnlyIfActiveAndConverged ==
    (pc = "stepped")
        => LET r == StepResult(st)
           IN  /\ \A i \in 1..NN :
                     /\ r.la_Nk1[i] # 0 => (st.I_N[i] /\ r.converged)
                     /\ (st.I_N[i] /\ r.converged) => r.la_Nk1[i] = st.la_Nk1_i[i]
               /\ \A k \in DOMAIN r.la_Tk1 :
                     /\ r.la_Tk1[k] # 0 => (OwnerActive(k) /\ r.converged)
                     /\ (OwnerActive(k) /\ r.converged) => r.la_Tk1[k] = st.la_Tk1_i[k]
               /\ ~r.converged
                     => (r.la_Nk1 = Zeros(NN) /\ r.la_Tk1 = Zeros(Len(st.la_Tk)))

C29_Witness ==
    /\ pc = "stepped"
    /\ st.converged
    /\ \E i \in 1..NN : st.I_N[i] /\ StepResult(st).la_Nk1[i] # 0
    /\ \E i \in 1..NN : ~st.I_N[i] /\ st.la_Nk1_i[i] # 0 /\ StepResult(st).la_Nk1[i] = 0
    /\ \E k \in DOMAIN st.la_Tk : ~OwnerActive(k) /\ st.la_Tk1_i[k] # 0

\* C30: fix_point_error_function is applied only to a residual vector with
\* at least one entry: a prox update, and with it the error, is computed only
\* in a step with an active contact, and the length the maximum is divided
\* by is the number of active contact values, at least 1.
C30_ErrorOnNonEmptyResidual ==
    InStep
        => /\ st.nprox > 0
                => /\ \E i \in 1..NN : st.I_N[i]
                   /\ st.error.den = ActiveEntries
                   /\ st.error.den >= 1
           /\ st.nprox = 0 => st.error = [num |-> 0, den |-> 1]
           /\ (\A i \in 1..NN : ~st.I_N[i]) => st.nprox = 0

C30_Witness ==
    /\ pc = "stepped"
    /\ st.nprox = 2
    /\ model.nT = 0
    /\ st.error.den = 1
    /\ st.error.num > 0

====
